---- MODULE Spec2Model ----
(***************************************************************************)
(* A model of Yamale's entry points (yamale.py: make_schema, make_data,    *)
(* validate) and of the type predicates of its validators                  *)
(* (validators/validators.py: Number, Integer, Boolean, Day, Timestamp,    *)
(* Null, RedshiftDatatype).                                                *)
(*                                                                         *)
(* Python strings are sequences of one-character strings, so that          *)
(* str.upper, str.split, str.replace, int() and the regular expressions    *)
(* are computed character by character.  A Python call ends in one of the  *)
(* outcomes "True", "False", "None" (a function that falls off its end) or *)
(* the name of the exception it raises.                                    *)
(***************************************************************************)
EXTENDS Integers, Sequences, FiniteSets, TLC

VARIABLES
    pc,         \* position of the running call
    validator,  \* tag of the validator whose _is_valid is called
    src,        \* how the data value was written (its parts, before rendering)
    value,      \* the data value handed to _is_valid
    result,     \* outcome of _is_valid
    path,       \* the path argument of make_schema / make_data
    raw_arg,    \* the raw_schema_ / raw_data_ argument
    file_docs,  \* the documents readers.parse_file yields for path
    raw,        \* raw_schemas / raw_data (local)
    s,          \* the Schema under construction (local of make_schema)
    idx,        \* loop position
    built,      \* number of Schema objects constructed so far
    data,       \* the data argument of validate
    strict,     \* the strict argument of validate ("omitted" when not given)
    engine,     \* how Schema.validate reports a failing document
    calls,      \* the calls made to Schema.validate, in order
    reports,    \* the per-document reports carried by the failure leaving validate
    ret,        \* the list returned by make_data / validate
    ret_schema, \* the Schema returned by make_schema
    exc         \* the exception that left the running call

vars ==
    << pc, validator, src, value, result, path, raw_arg, file_docs, raw, s, idx,
       built, data, strict, engine, calls, reports, ret, ret_schema, exc >>

-----------------------------------------------------------------------------
(* Characters *)

LowerAlphabet ==
    <<"a","b","c","d","e","f","g","h","i","j","k","l","m","n","o","p","q","r","s","t","u","v","w","x","y","z">>

UpperAlphabet ==
    <<"A","B","C","D","E","F","G","H","I","J","K","L","M","N","O","P","Q","R","S","T","U","V","W","X","Y","Z">>

DigitChars ==
    <<"0","1","2","3","4","5","6","7","8","9">>

Range(q) ==
    { q[i] : i \in 1..Len(q) }

\* the regular-expression class [a-zA-Z\s]
IsAlphaSpace(c) ==
    c \in Range(LowerAlphabet) \cup Range(UpperAlphabet) \cup {" ", "\t"}

\* the regular-expression class \d
IsDigit(c) ==
    c \in Range(DigitChars)

IndexIn(c, q) ==
    CHOOSE i \in 1..Len(q) : q[i] = c

\* str.upper(), one character
upper_char(c) ==
    IF c \in Range(LowerAlphabet) THEN UpperAlphabet[IndexIn(c, LowerAlphabet)] ELSE c

\* str.upper()
upper(str) ==
    [ i \in 1..Len(str) |-> upper_char(str[i]) ]

\* x in list
InList(x, list) ==
    \E i \in 1..Len(list) : list[i] = x

-----------------------------------------------------------------------------
(* RedshiftDatatype: class attributes *)

K_CHAR ==
    <<"C","H","A","R">>

K_CHARACTER ==
    <<"C","H","A","R","A","C","T","E","R">>

K_NCHAR ==
    <<"N","C","H","A","R">>

K_BPCHAR ==
    <<"B","P","C","H","A","R">>

K_VARCHAR ==
    <<"V","A","R","C","H","A","R">>

K_CHARACTER_VARYING ==
    <<"C","H","A","R","A","C","T","E","R"," ","V","A","R","Y","I","N","G">>

K_NVARCHAR ==
    <<"N","V","A","R","C","H","A","R">>

K_DECIMAL ==
    <<"D","E","C","I","M","A","L">>

K_NUMERIC ==
    <<"N","U","M","E","R","I","C">>

K_SMALLINT ==
    <<"S","M","A","L","L","I","N","T">>

K_INT2 ==
    <<"I","N","T","2">>

K_INTEGER ==
    <<"I","N","T","E","G","E","R">>

K_INT ==
    <<"I","N","T">>

K_INT4 ==
    <<"I","N","T","4">>

K_BIGINT ==
    <<"B","I","G","I","N","T">>

K_INT8 ==
    <<"I","N","T","8">>

K_REAL ==
    <<"R","E","A","L">>

K_FLOAT4 ==
    <<"F","L","O","A","T","4">>

K_DATE ==
    <<"D","A","T","E">>

K_DOUBLE_PRECISION ==
    <<"D","O","U","B","L","E"," ","P","R","E","C","I","S","I","O","N">>

K_FLOAT8 ==
    <<"F","L","O","A","T","8">>

K_FLOAT ==
    <<"F","L","O","A","T">>

K_BOOLEAN ==
    <<"B","O","O","L","E","A","N">>

K_BOOL ==
    <<"B","O","O","L">>

K_TIMESTAMP ==
    <<"T","I","M","E","S","T","A","M","P">>

K_TIMESTAMPTZ ==
    <<"T","I","M","E","S","T","A","M","P","T","Z">>

K_TIMESTAMP_WITHOUT_TIME_ZONE ==
    <<"T","I","M","E","S","T","A","M","P"," ","W","I","T","H","O","U","T"," ","T","I","M","E"," ","Z","O","N","E">>

K_TIMESTAMP_WITH_TIME_ZONE ==
    <<"T","I","M","E","S","T","A","M","P"," ","W","I","T","H"," ","T","I","M","E"," ","Z","O","N","E">>

K_GEOMETRY ==
    <<"G","E","O","M","E","T","R","Y">>

K_TEXT ==
    <<"T","E","X","T">>

K_MAX ==
    <<"M","A","X">>

one_optional_arg ==
    << K_CHAR, K_CHARACTER, K_NCHAR, K_BPCHAR, K_VARCHAR, K_CHARACTER_VARYING, K_NVARCHAR >>

two_optional_args ==
    << K_DECIMAL, K_NUMERIC >>

no_optional_args ==
    << K_SMALLINT, K_INT2, K_INTEGER, K_INT, K_INT4, K_BIGINT, K_INT8, K_REAL, K_FLOAT4, K_DATE, K_DOUBLE_PRECISION, K_FLOAT8, K_FLOAT, K_BOOLEAN, K_BOOL, K_TIMESTAMP, K_TIMESTAMPTZ, K_TIMESTAMP_WITHOUT_TIME_ZONE, K_TIMESTAMP_WITH_TIME_ZONE, K_GEOMETRY, K_TEXT >>

all_args ==
    one_optional_arg \o two_optional_args \o no_optional_args

aliases ==
    (K_CHAR :> K_CHAR) @@ (K_CHARACTER :> K_CHAR) @@ (K_BPCHAR :> K_CHAR) @@
    (K_NCHAR :> K_CHAR) @@ (K_VARCHAR :> K_VARCHAR) @@
    (K_CHARACTER_VARYING :> K_VARCHAR) @@ (K_NVARCHAR :> K_VARCHAR)

str_ranges ==
    (K_CHAR :> <<1, 4096>>) @@ (K_VARCHAR :> <<1, 65535>>)

num_ranges ==
    [ PRECISION |-> <<1, 38>>, SCALE |-> <<0, 37>> ]

-----------------------------------------------------------------------------
(* RedshiftDatatype: the string operations _is_valid uses *)

\* the characters str[from..] start with a run of one or more digits that ends
\* right before position e
DigitRun(str, from, e) ==
    /\ from < e
    /\ e <= Len(str) + 1
    /\ \A i \in from..(e - 1) : IsDigit(str[i])

\* the characters of str at from.. are lit
LitAt(str, from, lit) ==
    /\ from + Len(lit) - 1 <= Len(str)
    /\ \A i \in 1..Len(lit) : str[from + i - 1] = lit[i]

\* ^[a-zA-Z\s]+\( matches and its bracket is at position k
HeadAt(str, k) ==
    /\ k >= 2
    /\ k <= Len(str)
    /\ str[k] = "("
    /\ \A i \in 1..(k - 1) : IsAlphaSpace(str[i])

\* re.findall(single_arg_pattern, value) is not empty:
\* "^[a-zA-Z\s]+\((\d+|MAX)\)" matches at the start of the string
single_arg_pattern(str) ==
    \E k \in 1..Len(str) :
        /\ HeadAt(str, k)
        /\ \/ \E e \in (k + 2)..Len(str) :
                  DigitRun(str, k + 1, e) /\ str[e] = ")"
           \/ LitAt(str, k + 1, K_MAX \o <<")">>)

\* re.findall(multiple_arg_pattern, value) is not empty:
\* "^[a-zA-Z\s]+\((\d+[,]{1}[ ]?\d+|MAX)\)" matches at the start of the string
multiple_arg_pattern(str) ==
    \E k \in 1..Len(str) :
        /\ HeadAt(str, k)
        /\ \/ \E c \in (k + 2)..Len(str) :
                  /\ DigitRun(str, k + 1, c)
                  /\ str[c] = ","
                  /\ \E d \in {c + 1, c + 2} :
                         /\ d = c + 2 => (c + 1 <= Len(str) /\ str[c + 1] = " ")
                         /\ \E e \in (d + 1)..Len(str) :
                                DigitRun(str, d, e) /\ str[e] = ")"
           \/ LitAt(str, k + 1, K_MAX \o <<")">>)

\* value.split('(')[0]
split_paren_0(str) ==
    IF \E i \in 1..Len(str) : str[i] = "("
    THEN LET k == CHOOSE i \in 1..Len(str) :
                      str[i] = "(" /\ \A j \in 1..(i - 1) : str[j] # "("
         IN  SubSeq(str, 1, k - 1)
    ELSE str

\* re.search(r'\((.*?)\)', value): the leftmost bracket that is closed later on
\* the same line, up to the first closing bracket after it; found is FALSE when
\* re.search returns None
search_brackets(str) ==
    LET Closes(i, j) ==
            /\ i < j
            /\ str[i] = "("
            /\ str[j] = ")"
            /\ \A m \in (i + 1)..(j - 1) : str[m] # ")" /\ str[m] # "\n"
        Opens(i) == \E j \in 1..Len(str) : Closes(i, j)
    IN  IF \E i \in 1..Len(str) : Opens(i)
        THEN LET i == CHOOSE a \in 1..Len(str) :
                          Opens(a) /\ \A b \in 1..(a - 1) : ~Opens(b)
                 j == CHOOSE b \in 1..Len(str) : Closes(i, b)
             IN  [ found |-> TRUE, group1 |-> SubSeq(str, i + 1, j - 1) ]
        ELSE [ found |-> FALSE, group1 |-> <<>> ]

\* str.replace(" ", "")
replace_spaces(str) ==
    SelectSeq(str, LAMBDA c : c # " ")

\* str.split(",")
RECURSIVE split_comma(_)
split_comma(str) ==
    IF \E i \in 1..Len(str) : str[i] = ","
    THEN LET k == CHOOSE i \in 1..Len(str) :
                      str[i] = "," /\ \A j \in 1..(i - 1) : str[j] # ","
         IN  <<SubSeq(str, 1, k - 1)>> \o split_comma(SubSeq(str, k + 1, Len(str)))
    ELSE <<str>>

\* int(x) raises ValueError unless x is a decimal numeral
int_ok(str) ==
    Len(str) > 0 /\ \A i \in 1..Len(str) : IsDigit(str[i])

\* int(x) of a decimal numeral
RECURSIVE int(_)
int(str) ==
    IF Len(str) = 0 THEN 0
    ELSE int(SubSeq(str, 1, Len(str) - 1)) * 10
             + (IndexIn(str[Len(str)], DigitChars) - 1)

-----------------------------------------------------------------------------
(* RedshiftDatatype._is_valid *)

\* valid_without_argument without the upper(): the keyword compared as written
valid_without_argument_exact(str) ==
    IF InList(str, all_args) THEN "True" ELSE "False"

valid_without_argument(str) ==
    IF InList(upper(str), all_args) THEN "True" ELSE "False"

\* valid_single_argument with the upper bound of the range excluded
valid_single_argument_excl(str) ==
    IF single_arg_pattern(str)
    THEN LET type_ == split_paren_0(str)
             m     == search_brackets(str)
             arg_  == replace_spaces(m.group1)
         IN  IF ~m.found THEN "AttributeError"
             ELSE IF InList(type_, one_optional_arg)
             THEN LET valid_range == str_ranges[aliases[type_]]
                  IN  IF arg_ = K_MAX THEN "True"
                      ELSE IF ~int_ok(arg_) THEN "ValueError"
                      ELSE IF valid_range[1] <= int(arg_) /\ int(arg_) < valid_range[2]
                      THEN "True" ELSE "False"
             ELSE "False"
    ELSE "False"

valid_single_argument(str) ==
    IF single_arg_pattern(str)
    THEN LET type_ == split_paren_0(str)
             m     == search_brackets(str)
             arg_  == replace_spaces(m.group1)
         IN  IF ~m.found THEN "AttributeError"
             ELSE IF InList(type_, one_optional_arg)
             THEN LET valid_range == str_ranges[aliases[type_]]
                  IN  IF arg_ = K_MAX THEN "True"
                      ELSE IF ~int_ok(arg_) THEN "ValueError"
                      ELSE IF valid_range[1] <= int(arg_) /\ int(arg_) <= valid_range[2]
                      THEN "True" ELSE "False"
             ELSE "False"
    ELSE "False"

\* valid_double_argument with precision >= scale in place of precision > scale
valid_double_argument_ge(str) ==
    IF multiple_arg_pattern(str)
    THEN LET type_ == split_paren_0(str)
             m     == search_brackets(str)
         IN  IF InList(type_, two_optional_args) /\ m.found
             THEN LET parts == split_comma(replace_spaces(m.group1))
                  IN  IF \E i \in 1..Len(parts) : ~int_ok(parts[i])
                      THEN "ValueError"
                      ELSE LET args_ == [ i \in 1..Len(parts) |-> int(parts[i]) ]
                           IN  IF /\ Len(args_) >= 2
                                  /\ num_ranges.PRECISION[1] <= args_[1]
                                  /\ args_[1] <= num_ranges.PRECISION[2]
                                  /\ num_ranges.SCALE[1] <= args_[2]
                                  /\ args_[2] <= num_ranges.SCALE[2]
                                  /\ args_[1] >= args_[2]
                               THEN "True" ELSE "None"
             ELSE "None"
    ELSE "None"

valid_double_argument(str) ==
    IF multiple_arg_pattern(str)
    THEN LET type_ == split_paren_0(str)
             m     == search_brackets(str)
         IN  IF InList(type_, two_optional_args)
             THEN IF ~m.found THEN "AttributeError"
                  ELSE LET parts == split_comma(replace_spaces(m.group1))
                       IN  IF \E i \in 1..Len(parts) : ~int_ok(parts[i])
                           THEN "ValueError"
                           ELSE LET args_ == [ i \in 1..Len(parts) |-> int(parts[i]) ]
                                IN  IF Len(args_) < 2 THEN "IndexError"
                                    ELSE LET valid_precision ==
                                                 /\ num_ranges.PRECISION[1] <= args_[1]
                                                 /\ args_[1] <= num_ranges.PRECISION[2]
                                             valid_scale ==
                                                 /\ num_ranges.SCALE[1] <= args_[2]
                                                 /\ args_[2] <= num_ranges.SCALE[2]
                                         IN  IF valid_precision /\ valid_scale
                                                    /\ args_[1] > args_[2]
                                             THEN "True" ELSE "None"
             ELSE "None"
    ELSE "None"

Outcomes ==
    {"True", "False", "None"}

\* any([a, b, c]): the list is built first, so the three calls all run, in
\* order, and the first exception leaves the call
any_of(a, b, c) ==
    IF a \notin Outcomes THEN a
    ELSE IF b \notin Outcomes THEN b
    ELSE IF c \notin Outcomes THEN c
    ELSE IF "True" \in {a, b, c} THEN "True" ELSE "False"

-----------------------------------------------------------------------------
(* Python values: the class of a value and the classes it is an instance of *)

\* the classes of the values a YAML reader yields, each with its base classes:
\* bool is a subclass of int, datetime a subclass of date
Mro ==
    [ NoneType |-> {"NoneType"},
      bool     |-> {"bool", "int"},
      int      |-> {"int"},
      float    |-> {"float"},
      str      |-> {"str"},
      date     |-> {"date"},
      datetime |-> {"datetime", "date"},
      list     |-> {"list"},
      dict     |-> {"dict"} ]

isinstance(v, classes) ==
    Mro[v.cls] \cap classes # {}

PyBool(b) ==
    IF b THEN "True" ELSE "False"

Number_is_valid(v) ==
    PyBool(isinstance(v, {"int", "float"}))

Integer_is_valid(v) ==
    PyBool(isinstance(v, {"int"}))

Boolean_is_valid(v) ==
    PyBool(isinstance(v, {"bool"}))

Day_is_valid(v) ==
    PyBool(isinstance(v, {"date"}))

Timestamp_is_valid(v) ==
    PyBool(isinstance(v, {"datetime"}))

Null_is_valid(v) ==
    PyBool(v.cls = "NoneType")

RedshiftDatatype_is_valid(v) ==
    IF ~isinstance(v, {"str"}) THEN "False"
    ELSE any_of(valid_without_argument(v.chars),
                valid_single_argument(v.chars),
                valid_double_argument(v.chars))

ScalarTags ==
    {"num", "int", "bool", "day", "timestamp", "null"}

-----------------------------------------------------------------------------
(* The data values the validators are called with.  A value is written from  *)
(* its parts: a keyword in some letter case, an optional bracketed argument  *)
(* list, and whatever follows the closing bracket.                           *)

MaxPad == 1

lower_char(c) ==
    IF c \in Range(UpperAlphabet) THEN LowerAlphabet[IndexIn(c, UpperAlphabet)] ELSE c

Cased(word, casing) ==
    CASE casing = "upper"   -> word
      [] casing = "lower"   -> [ i \in 1..Len(word) |-> lower_char(word[i]) ]
      [] casing = "capital" -> [ i \in 1..Len(word) |->
                                   IF i = 1 THEN word[i] ELSE lower_char(word[i]) ]

RECURSIVE Decimal(_)
Decimal(n) ==
    IF n < 10 THEN <<DigitChars[n + 1]>>
    ELSE Decimal(n \div 10) \o <<DigitChars[(n % 10) + 1]>>

Zeros(k) ==
    [ i \in 1..k |-> "0" ]

ArgText(a) ==
    CASE a.kind = "MAX" -> K_MAX
      [] a.kind = "max" -> <<"m","a","x">>
      [] a.kind = "num" -> Zeros(a.pad) \o Decimal(a.n)

NoArg ==
    [ kind |-> "MAX", n |-> 0, pad |-> 0 ]

Render(x) ==
    Cased(x.base, x.casing)
    \o ( CASE x.form = "bare"   -> <<>>
           [] x.form = "single" -> <<"(">> \o ArgText(x.arg) \o <<")">>
           [] x.form = "double" -> <<"(">> \o Decimal(x.p) \o <<",">> \o x.sep
                                           \o Decimal(x.s) \o <<")">> )
    \o x.trailer

ValueOf(x) ==
    [ cls |-> x.cls, chars |-> IF x.cls = "str" THEN Render(x) ELSE <<>> ]

BaseWords ==
    Range(all_args) \cup { <<"F","O","O">>, K_VARCHAR \o <<" ">>, <<>> }

Casings ==
    {"upper", "lower", "capital"}

Trailers ==
    { <<>>, <<"x","y","z">>, <<" ","N","O","T"," ","N","U","L","L">> }

ArgNumbers ==
    {0, 1, 256, 4096, 4097, 65535, 65536, 100000}

SingleArgs ==
    { [ kind |-> "MAX", n |-> 0, pad |-> 0 ], [ kind |-> "max", n |-> 0, pad |-> 0 ] }
    \cup [ kind : {"num"}, n : ArgNumbers, pad : 0..MaxPad ]

Precisions ==
    {0, 1, 10, 38, 39}

Scales ==
    {0, 5, 10, 12, 37, 38}

Separators ==
    { <<>>, <<" ">> }

StrSources ==
    [ cls : {"str"}, form : {"bare"}, base : BaseWords, casing : Casings,
      arg : {NoArg}, p : {0}, s : {0}, sep : {<<>>}, trailer : Trailers ]
    \cup
    [ cls : {"str"}, form : {"single"}, base : BaseWords, casing : Casings,
      arg : SingleArgs, p : {0}, s : {0}, sep : {<<>>}, trailer : Trailers ]
    \cup
    [ cls : {"str"}, form : {"double"}, base : BaseWords, casing : Casings,
      arg : {NoArg}, p : Precisions, s : Scales, sep : Separators, trailer : Trailers ]

OtherSources ==
    [ cls : DOMAIN Mro \ {"str"}, form : {"bare"}, base : {<<>>}, casing : {"upper"},
      arg : {NoArg}, p : {0}, s : {0}, sep : {<<>>}, trailer : {<<>>} ]

ScalarSources ==
    OtherSources \cup { x \in StrSources : x.form = "bare" /\ x.base = K_INT
                                            /\ x.trailer = <<>> }

-----------------------------------------------------------------------------
(* State outside the running call *)

NoSchema ==
    [ base |-> "None", name |-> "None", includes |-> <<>> ]

NoExc ==
    [ type |-> "None", file |-> "None", cause |-> "None" ]

NoSource ==
    [ cls |-> "NoneType", form |-> "bare", base |-> <<>>, casing |-> "upper",
      arg |-> NoArg, p |-> 0, s |-> 0, sep |-> <<>>, trailer |-> <<>> ]

ValidatorIdle ==
    /\ validator = "None"
    /\ src = NoSource
    /\ value = ValueOf(NoSource)
    /\ result = "pending"

FilesIdle ==
    /\ path = "None" /\ raw_arg = "None" /\ file_docs = <<>> /\ raw = <<>>
    /\ s = NoSchema /\ built = 0 /\ ret_schema = NoSchema

ValidateIdle ==
    /\ data = <<>> /\ strict = "omitted" /\ engine = "None"
    /\ calls = <<>> /\ reports = <<>>

validator_vars ==
    << validator, src, value >>

file_vars ==
    << path, raw_arg, file_docs, raw, s, built, ret_schema >>

validate_vars ==
    << data, strict, engine, calls, reports >>

\* sequences over S of length at most n
SeqsUpTo(S, n) ==
    UNION { [ 1..k -> S ] : k \in 0..n }

\* bool(x) of a document or of None
Truthy(x) ==
    x \notin {"None", "{}"}

Paths ==
    {"a.yaml", "b.yaml"}

-----------------------------------------------------------------------------
(* Validator._is_valid, one action per validator class *)

InitValidators ==
    /\ pc = "call_is_valid"
    /\ \/ validator = "redshift_datatype" /\ src \in StrSources \cup OtherSources
       \/ validator \in ScalarTags /\ src \in ScalarSources
    /\ value = ValueOf(src)
    /\ result = "pending"
    /\ FilesIdle /\ ValidateIdle
    /\ idx = 0 /\ ret = <<>> /\ exc = NoExc

IsValidCall(tag, outcome) ==
    /\ pc = "call_is_valid"
    /\ validator = tag
    /\ result' = outcome
    /\ pc' = "done"
    /\ UNCHANGED << validator_vars, file_vars, validate_vars, idx, ret, exc >>

CallNumber ==
    IsValidCall("num", Number_is_valid(value))

CallInteger ==
    IsValidCall("int", Integer_is_valid(value))

CallBoolean ==
    IsValidCall("bool", Boolean_is_valid(value))

CallDay ==
    IsValidCall("day", Day_is_valid(value))

CallTimestamp ==
    IsValidCall("timestamp", Timestamp_is_valid(value))

CallNull ==
    IsValidCall("null", Null_is_valid(value))

CallRedshiftDatatype ==
    IsValidCall("redshift_datatype", RedshiftDatatype_is_valid(value))

NextValidators ==
    \/ CallNumber
    \/ CallInteger
    \/ CallBoolean
    \/ CallDay
    \/ CallTimestamp
    \/ CallNull
    \/ CallRedshiftDatatype

SpecValidators ==
    InitValidators /\ [][NextValidators]_vars

-----------------------------------------------------------------------------
(* make_data *)

DataDocs ==
    {"{}", "d1", "d2"}

MaxDocs == 3

InitMakeData ==
    /\ pc = "call_make_data"
    /\ path \in Paths
    /\ raw_arg \in {"None"} \cup DataDocs
    /\ file_docs \in SeqsUpTo(DataDocs, MaxDocs)
    /\ raw = <<>> /\ s = NoSchema /\ built = 0 /\ ret_schema = NoSchema
    /\ ValidatorIdle /\ ValidateIdle
    /\ idx = 0 /\ ret = <<>> /\ exc = NoExc

\* readers.parse_file(path, parser): the documents of the file, in order
parse_file(docs) ==
    docs

\* make_data without the special case for a source with no documents
make_data_no_default(p, raw_data_, docs) ==
    LET raw_data == IF Truthy(raw_data_) THEN <<raw_data_>> ELSE parse_file(docs)
    IN  [ i \in 1..Len(raw_data) |-> <<raw_data[i], p>> ]

make_data(p, raw_data_, docs) ==
    LET raw_data == IF Truthy(raw_data_) THEN <<raw_data_>> ELSE parse_file(docs)
    IN  IF Len(raw_data) = 0
        THEN << <<"{}", p>> >>
        ELSE [ i \in 1..Len(raw_data) |-> <<raw_data[i], p>> ]

MakeData ==
    /\ pc = "call_make_data"
    /\ ret' = make_data(path, raw_arg, file_docs)
    /\ pc' = "done"
    /\ UNCHANGED << validator_vars, result, file_vars, validate_vars, idx, exc >>

NextMakeData ==
    MakeData

SpecMakeData ==
    InitMakeData /\ [][NextMakeData]_vars

-----------------------------------------------------------------------------
(* make_schema *)

SchemaDocs ==
    {"{}", "good", "badType", "badSyntax", "badKey"}

\* what building validators from a raw schema document raises ("None": nothing)
Raises(doc) ==
    CASE doc = "badType"   -> "TypeError"
      [] doc = "badSyntax" -> "SyntaxError"
      [] doc = "badKey"    -> "KeyError"
      [] OTHER             -> "None"

InitMakeSchema ==
    /\ pc = "call_make_schema"
    /\ path \in Paths
    /\ raw_arg \in {"None"} \cup SchemaDocs
    /\ file_docs \in SeqsUpTo(SchemaDocs, MaxDocs)
    /\ raw = <<>> /\ s = NoSchema /\ built = 0 /\ ret_schema = NoSchema
    /\ ValidatorIdle /\ ValidateIdle
    /\ idx = 0 /\ ret = <<>> /\ exc = NoExc

\* raw_schemas = ...; if not raw_schemas: raise ValueError
MakeSchemaParse ==
    /\ pc = "call_make_schema"
    /\ raw' = IF Truthy(raw_arg) THEN <<raw_arg>> ELSE parse_file(file_docs)
    /\ IF Len(raw') = 0
       THEN /\ exc' = [ type |-> "ValueError", file |-> path, cause |-> "None" ]
            /\ pc' = "done"
       ELSE /\ exc' = exc
            /\ pc' = "build_base"
    /\ UNCHANGED << validator_vars, result, path, raw_arg, file_docs, s, built,
                    ret_schema, validate_vars, idx, ret >>

\* s = Schema(raw_schemas[0], path, validators=validators)
MakeSchemaBase ==
    /\ pc = "build_base"
    /\ IF Raises(raw[1]) = "None"
       THEN /\ s' = [ base |-> raw[1], name |-> path, includes |-> <<>> ]
            /\ built' = built + 1
            /\ idx' = 2
            /\ pc' = "add_includes"
            /\ exc' = exc
       ELSE /\ exc' = [ type |-> Raises(raw[1]), file |-> "None", cause |-> "None" ]
            /\ pc' = "raised"
            /\ UNCHANGED << s, built, idx >>
    /\ UNCHANGED << validator_vars, result, path, raw_arg, file_docs, raw,
                    ret_schema, validate_vars, ret >>

\* the include loop going on to the next document when add_include raises
MakeSchemaAddInclude_continue ==
    /\ pc = "add_includes"
    /\ idx <= Len(raw)
    /\ s' = IF Raises(raw[idx]) = "None"
            THEN [ s EXCEPT !.includes = Append(@, raw[idx]) ]
            ELSE s
    /\ idx' = idx + 1
    /\ UNCHANGED << validator_vars, result, path, raw_arg, file_docs, raw, built,
                    ret_schema, validate_vars, ret, pc, exc >>

\* for raw_schema in raw_schemas[1:]: s.add_include(raw_schema)
MakeSchemaAddInclude ==
    /\ pc = "add_includes"
    /\ idx <= Len(raw)
    /\ IF Raises(raw[idx]) = "None"
       THEN /\ s' = [ s EXCEPT !.includes = Append(@, raw[idx]) ]
            /\ idx' = idx + 1
            /\ UNCHANGED << pc, exc >>
       ELSE /\ exc' = [ type |-> Raises(raw[idx]), file |-> "None", cause |-> "None" ]
            /\ pc' = "raised"
            /\ UNCHANGED << s, idx >>
    /\ UNCHANGED << validator_vars, result, path, raw_arg, file_docs, raw, built,
                    ret_schema, validate_vars, ret >>

\* except (TypeError, SyntaxError) as e: raise SyntaxError(error)
MakeSchemaExcept ==
    /\ pc = "raised"
    /\ exc' = IF exc.type \in {"TypeError", "SyntaxError"}
              THEN [ type |-> "SyntaxError", file |-> path, cause |-> exc.type ]
              ELSE exc
    /\ pc' = "done"
    /\ UNCHANGED << validator_vars, result, file_vars, validate_vars, idx, ret >>

\* return s
MakeSchemaReturn ==
    /\ pc = "add_includes"
    /\ idx > Len(raw)
    /\ ret_schema' = s
    /\ pc' = "done"
    /\ UNCHANGED << validator_vars, result, path, raw_arg, file_docs, raw, s, built,
                    validate_vars, idx, ret, exc >>

NextMakeSchema ==
    \/ MakeSchemaParse
    \/ MakeSchemaBase
    \/ MakeSchemaAddInclude
    \/ MakeSchemaExcept
    \/ MakeSchemaReturn

SpecMakeSchema ==
    InitMakeSchema /\ [][NextMakeSchema]_vars

-----------------------------------------------------------------------------
(* validate *)

MaxItems == 3

\* documents: one that matches the schema, one that matches it unless strict
\* (it has a key the schema does not declare), one that does not match
ItemDocs ==
    {"good", "extra", "bad"}

DataItems ==
    ItemDocs \X Paths

StrictArgs ==
    {"omitted", "True", "False"}

\* def validate(schema, data, strict=False)
strict_default(arg) ==
    IF arg = "omitted" THEN "False" ELSE arg

\* the document has errors against the schema
HasErrors(doc, strict_) ==
    doc = "bad" \/ (doc = "extra" /\ strict_ = "True")

\* Schema.validate(data, data_name, strict): "ok", or the document's errors
\* raised as one exception ("raises") or handed back as a list ("returns")
schema_validate(doc, strict_, how) ==
    IF HasErrors(doc, strict_) THEN how ELSE "ok"

InitValidate ==
    /\ pc = "call_validate"
    /\ data \in SeqsUpTo(DataItems, MaxItems)
    /\ strict \in StrictArgs
    /\ engine \in {"raises", "returns"}
    /\ calls = <<>> /\ reports = <<>>
    /\ ValidatorIdle /\ FilesIdle
    /\ idx = 1 /\ ret = <<>> /\ exc = NoExc

\* the loop of validate calling Schema.validate without the caller's strict
ValidateItem_default_strict ==
    /\ pc = "call_validate"
    /\ idx <= Len(data)
    /\ LET d       == data[idx][1]
           label   == data[idx][2]
           strict_ == "False"
           out     == schema_validate(d, strict_, engine)
       IN  /\ calls' = Append(calls, [ doc |-> d, path |-> label, strict |-> strict_ ])
           /\ IF out = "raises"
              THEN /\ exc' = [ type |-> "ValueError", file |-> label, cause |-> d ]
                   /\ reports' = << <<d, label>> >>
                   /\ pc' = "done"
                   /\ idx' = idx
              ELSE /\ idx' = idx + 1
                   /\ UNCHANGED << exc, reports, pc >>
    /\ UNCHANGED << validator_vars, result, file_vars, data, strict, engine, ret >>

\* for d, path in data: schema.validate(d, path, strict)
ValidateItem ==
    /\ pc = "call_validate"
    /\ idx <= Len(data)
    /\ LET d       == data[idx][1]
           label   == data[idx][2]
           strict_ == strict_default(strict)
           out     == schema_validate(d, strict_, engine)
       IN  /\ calls' = Append(calls, [ doc |-> d, path |-> label, strict |-> strict_ ])
           /\ IF out = "raises"
              THEN /\ exc' = [ type |-> "ValueError", file |-> label, cause |-> d ]
                   /\ reports' = << <<d, label>> >>
                   /\ pc' = "done"
                   /\ idx' = idx
              ELSE /\ idx' = idx + 1
                   /\ UNCHANGED << exc, reports, pc >>
    /\ UNCHANGED << validator_vars, result, file_vars, data, strict, engine, ret >>

\* return data
ValidateReturn ==
    /\ pc = "call_validate"
    /\ idx > Len(data)
    /\ ret' = data
    /\ pc' = "done"
    /\ UNCHANGED << validator_vars, result, file_vars, validate_vars, idx, exc >>

NextValidate ==
    \/ ValidateItem
    \/ ValidateReturn

SpecValidate ==
    InitValidate /\ [][NextValidate]_vars

-----------------------------------------------------------------------------
(* All calls *)

Init ==
    \/ InitValidators
    \/ InitMakeData
    \/ InitMakeSchema
    \/ InitValidate

Next ==
    \/ NextValidators
    \/ NextMakeData
    \/ NextMakeSchema
    \/ NextValidate

Spec ==
    Init /\ [][Next]_vars

-----------------------------------------------------------------------------
(* Properties *)

\* the keyword of the value, as written
Keyword ==
    Cased(src.base, src.casing)

\* _is_valid has returned or raised for a string made of a keyword, the given
\* form of argument list, and nothing after it
Checked(form) ==
    /\ pc = "done"
    /\ validator = "redshift_datatype"
    /\ src.cls = "str"
    /\ src.form = form
    /\ src.trailer = <<>>

CharAliases ==
    { K_CHAR, K_CHARACTER, K_NCHAR, K_BPCHAR }

VarcharAliases ==
    { K_VARCHAR, K_CHARACTER_VARYING, K_NVARCHAR }

ArgWithin(lo, hi) ==
    \/ src.arg.kind = "MAX"
    \/ src.arg.kind = "num" /\ lo <= src.arg.n /\ src.arg.n <= hi

\* C1: a value KEYWORD(arg) is accepted by redshift_datatype exactly when
\* KEYWORD is a one-argument keyword and arg is MAX or an integer in 1..4096
\* (CHAR aliases) or 1..65535 (VARCHAR aliases); VARCHAR(256) is accepted and
\* VARCHAR(100000) is not.
C1_SingleArgument ==
    Checked("single") =>
        ( result = "True" <=>
            \/ Keyword \in CharAliases /\ ArgWithin(1, 4096)
            \/ Keyword \in VarcharAliases /\ ArgWithin(1, 65535) )

C1_Witness ==
    /\ Checked("single")
    /\ Keyword = K_VARCHAR
    /\ src.arg = [ kind |-> "num", n |-> 256, pad |-> 0 ]
    /\ result = "True"

\* C2: a value KEYWORD(p,s) with KEYWORD DECIMAL or NUMERIC is accepted exactly
\* when 1 <= p <= 38, 0 <= s <= 37 and p > s; with any other keyword it is not
\* accepted.
C2_DoubleArgument ==
    Checked("double") =>
        ( result = "True" <=>
            /\ Keyword \in { K_DECIMAL, K_NUMERIC }
            /\ 1 <= src.p /\ src.p <= 38
            /\ 0 <= src.s /\ src.s <= 37
            /\ src.p > src.s )

C2_Witness ==
    /\ Checked("double")
    /\ Keyword = K_DECIMAL
    /\ src.p = 10 /\ src.s = 10
    /\ result = "False"

\* C3: redshift_datatype accepts no value other than a whole string of one of
\* the three forms: not a string with characters after the closing bracket,
\* and not a value that is no string.
C3_WholeStringOnly ==
    (pc = "done" /\ validator = "redshift_datatype" /\ result = "True") =>
        (src.cls = "str" /\ src.trailer = <<>>)

\* C4: RedshiftDatatype._is_valid ends in True or False for every value; it
\* never raises.
C4_NeverRaises ==
    (pc = "done" /\ validator = "redshift_datatype") =>
        result \in {"True", "False"}

\* the Value variant of a Python value
Variant ==
    [ NoneType |-> "Null", bool |-> "Boolean", int |-> "Integer", float |-> "Float",
      str |-> "String", date |-> "Date", datetime |-> "Timestamp",
      list |-> "Sequence", dict |-> "Mapping" ]

Accepts ==
    [ int |-> {"Integer"}, num |-> {"Integer", "Float"}, bool |-> {"Boolean"},
      day |-> {"Date"}, timestamp |-> {"Timestamp"}, null |-> {"Null"} ]

\* C9: each scalar validator accepts exactly the values of its own variant:
\* int the Integers, num the Integers and Floats, bool the Booleans, day the
\* Dates, timestamp the Timestamps, null Null.
C9_ScalarExact ==
    (pc = "done" /\ validator \in ScalarTags) =>
        ( result = "True" <=> Variant[value.cls] \in Accepts[validator] )

\* C10: a bare allowed keyword is accepted in any letter case; a bracketed
\* form whose keyword is an allowed keyword not written in upper case is
\* rejected, whatever its arguments.
C10_KeywordCase ==
    /\ (Checked("bare") /\ InList(src.base, all_args)) => result = "True"
    /\ \A form \in {"single", "double"} :
           (Checked(form) /\ InList(src.base, all_args) /\ src.casing # "upper")
               => result = "False"

C10_Witness ==
    /\ Checked("single")
    /\ src.base = K_VARCHAR
    /\ src.casing = "lower"
    /\ src.arg = [ kind |-> "num", n |-> 256, pad |-> 0 ]
    /\ result = "False"

\* the documents make_data / make_schema work on
Source ==
    IF raw_arg \in {"None", "{}"} THEN file_docs ELSE <<raw_arg>>

\* C6: make_data returns a non-empty list of (document, path) pairs: one pair
\* holding an empty mapping when the source has no documents, otherwise one
\* pair per document, in order; it raises nothing.
C6_MakeData ==
    pc = "done" =>
        /\ exc = NoExc
        /\ Len(ret) >= 1
        /\ \A i \in 1..Len(ret) : ret[i][2] = path
        /\ Len(Source) = 0 => ret = << <<"{}", path>> >>
        /\ Len(Source) > 0 =>
               /\ Len(ret) = Len(Source)
               /\ \A i \in 1..Len(ret) : ret[i][1] = Source[i]

C6_Witness ==
    /\ pc = "done"
    /\ raw_arg = "None"
    /\ file_docs = <<>>
    /\ ret = << <<"{}", path>> >>

\* the position of the first document of the source whose construction raises
\* TypeError or SyntaxError, no earlier one raising anything else (0: none)
FirstSchemaError ==
    LET Bad(i) == Raises(Source[i]) \in {"TypeError", "SyntaxError"}
        hit    == { i \in 1..Len(Source) :
                        Bad(i) /\ \A j \in 1..(i - 1) : Raises(Source[j]) = "None" }
    IN  IF hit = {} THEN 0 ELSE CHOOSE i \in hit : TRUE

\* C7: make_schema returns a Schema whose base is the first document, with
\* every further document registered as an include in order, or it returns no
\* Schema: an empty source raises ValueError with no Schema built, and a
\* TypeError or SyntaxError from the base or from an include leaves as one
\* SyntaxError naming the file, the documents after it not registered.
C7_MakeSchema ==
    pc = "done" =>
        /\ \/ /\ exc = NoExc
              /\ ret_schema = [ base |-> Source[1], name |-> path,
                                includes |-> Tail(Source) ]
           \/ /\ exc # NoExc
              /\ ret_schema = NoSchema
        /\ Len(Source) = 0 => (exc.type = "ValueError" /\ built = 0)
        /\ FirstSchemaError > 0 =>
               /\ exc = [ type |-> "SyntaxError", file |-> path,
                          cause |-> Raises(Source[FirstSchemaError]) ]
               /\ s.includes = SubSeq(Source, 2, FirstSchemaError - 1)
        /\ (\A i \in 1..Len(Source) : Raises(Source[i]) = "None") /\ Len(Source) > 0
               => exc = NoExc

C7_Witness ==
    /\ pc = "done"
    /\ Len(Source) = 3
    /\ FirstSchemaError = 3
    /\ exc.type = "SyntaxError"
    /\ Len(s.includes) = 1

\* the strict flag validate works with
Strict ==
    IF strict = "omitted" THEN "False" ELSE strict

\* the items of data whose document has errors
Failing ==
    { i \in 1..Len(data) : HasErrors(data[i][1], Strict) }

\* C5: when more than one data item is invalid, validate ends in a failure
\* that carries one report for each invalid item, every item having been
\* checked.
C5_OneReportPerDocument ==
    (pc = "done" /\ Cardinality(Failing) > 1) =>
        /\ exc # NoExc
        /\ Len(calls) = Len(data)
        /\ reports = SelectSeq(data, LAMBDA item : HasErrors(item[1], Strict))

\* C8: validate calls Schema.validate on the items in list order, once each,
\* with the item's document, its label and the caller's strict flag (False
\* when omitted); when no item fails it returns the data list it was given.
C8_InOrderSameList ==
    /\ Len(calls) <= Len(data)
    /\ \A i \in 1..Len(calls) :
           calls[i] = [ doc |-> data[i][1], path |-> data[i][2], strict |-> Strict ]
    /\ (pc = "done" /\ Failing = {}) =>
           (exc = NoExc /\ ret = data /\ Len(calls) = Len(data))
    /\ (pc = "done" /\ exc = NoExc) =>
           (ret = data /\ Len(calls) = Len(data))

C8_Witness ==
    /\ pc = "done"
    /\ exc = NoExc
    /\ strict = "True"
    /\ Len(data) >= 2
    /\ Len(calls) = Len(data)
    /\ ret = data

====
